---- MODULE Spec2Model ----
(***************************************************************************)
(* Model of the Wordle scorer of src/utils/wordleScorer.ts.                *)
(*                                                                         *)
(* A text is a sequence of code points, which is how `for (const char of   *)
(* shareText)` reads it.  The six box glyphs are written by name; every    *)
(* other code point (letters, digits, blanks, line feeds) is itself.       *)
(*                                                                         *)
(*   "black"  U+2B1B black large square      "yellow" U+1F7E8              *)
(*   "white"  U+2B1C white large square      "green"  U+1F7E9              *)
(*   "circle" U+26AB medium black circle     "brown"  U+1F7EB              *)
(***************************************************************************)
EXTENDS Integers, Sequences, FiniteSets, TLC

VARIABLES
    pc,              \* position of the invocation of scoreWordle
    shareText,       \* the argument of scoreWordle
    allBoxes,        \* const allBoxes
    boxLines,        \* const boxLines
    boxScores,       \* const boxScores: number[]
    guessPenalties,  \* const guessPenalties: number[]
    boxTotal,        \* let boxTotal
    totalPenalty,    \* let totalPenalty
    guessIndex,      \* loop variable of the scoring loop
    result,          \* the ScoreResult returned (meaningful when pc = "returned")
    error,           \* message of the Error thrown (meaningful when pc = "thrown")
    previous,        \* outcome a caller kept from its earlier invocation
    hpc,             \* position of the POST /score handler
    body,            \* req.body.wordleText of the request
    rendered,        \* the calls of res.render('index', ...) of the request
    calls,           \* number of calls of scoreWordle made by the handler
    other            \* the invocation or request that is in flight but not running

scorerVars == <<pc, shareText, allBoxes, boxLines, boxScores, guessPenalties,
                boxTotal, totalPenalty, guessIndex, result, error>>

\* What belongs to the callers of scoreWordle; scoreWordle touches none of it
callerVars == <<previous, hpc, body, rendered, calls, other>>

vars == <<scorerVars, callerVars>>

----------------------------------------------------------------------------
(* Bounds of the explored inputs. *)

\* Largest number of whole rows in an explored text (7 rows = 35 boxes is the
\* over-length case of the tests).
MaxRows == 7

\* Largest number of whole rows of the first text of a caller that scores two
\* texts one after the other.
MaxPairRows == 3

\* Largest number of whole rows in a text of two invocations in flight.
MaxConcRows == 2

----------------------------------------------------------------------------
(* Module-level tables of wordleScorer.ts. *)

BOX_SCORES_NoPresent == [black |-> 2, yellow |-> 0, green |-> 0]
BOX_SCORES_BlackThree == [black |-> 3, yellow |-> 1, green |-> 0]
BOX_SCORES == [black |-> 2, yellow |-> 1, green |-> 0]

VALID_TOTALS_Upto35 == <<5, 10, 15, 20, 25, 30, 35>>
VALID_TOTALS == <<5, 10, 15, 20, 25, 30>>

COMPLETION_PATTERN == <<"green", "green", "green", "green", "green">>

BOXES_PER_GUESS == 5
MAX_GUESSES == 6
FAILURE_PENALTY == 10
PERFECT_SCORE_BASE == 100

----------------------------------------------------------------------------
(* Helpers standing for built-ins of the language. *)

\* Array.prototype.includes
Includes(arr, x) == \E i \in 1..Len(arr) : arr[i] = x

\* slice with the end index one short
Slice_Short(arr, from, to) ==
    LET hi == IF to - 1 < Len(arr) THEN to - 1 ELSE Len(arr)
    IN  IF from >= hi THEN <<>> ELSE [k \in 1..(hi - from) |-> arr[from + k]]

\* Array.prototype.slice(from, to) with 0-based, end-exclusive indices,
\* clipped to the length of the array
Slice(arr, from, to) ==
    LET hi == IF to < Len(arr) THEN to ELSE Len(arr)
    IN  IF from >= hi THEN <<>> ELSE [k \in 1..(hi - from) |-> arr[from + k]]

\* Math.abs
MathAbs(x) == IF x < 0 THEN -x ELSE x

\* Decimal digits of a natural number, as `${n}` writes it
RECURSIVE NumberToString(_)
NumberToString(n) ==
    LET digit == <<"0", "1", "2", "3", "4", "5", "6", "7", "8", "9">>
    IN  IF n < 10 THEN <<digit[n + 1]>>
        ELSE NumberToString(n \div 10) \o <<digit[(n % 10) + 1]>>

\* Array.prototype.join(sep) of an array of numbers: a sequence of pieces
RECURSIVE Join(_, _)
Join(arr, sep) ==
    IF Len(arr) = 0 THEN <<>>
    ELSE IF Len(arr) = 1 THEN NumberToString(arr[1])
    ELSE NumberToString(arr[1]) \o <<sep>> \o Join(Tail(arr), sep)

----------------------------------------------------------------------------
(* The functions of wordleScorer.ts.  "null" is normalizeBoxChar's null. *)

normalizeBoxChar_NoBlack(char) ==
    IF char = "white" \/ char = "circle" \/ char = "brown"
        THEN "black"
    ELSE IF char = "yellow" THEN "yellow"
    ELSE IF char = "green" THEN "green"
    ELSE "null"
normalizeBoxChar_WhiteKept(char) ==
    IF char = "black" \/ char = "circle" \/ char = "brown"
        THEN "black"
    ELSE IF char = "white" THEN "white"
    ELSE IF char = "yellow" THEN "yellow"
    ELSE IF char = "green" THEN "green"
    ELSE "null"
normalizeBoxChar(char) ==
    IF char = "black" \/ char = "white" \/ char = "circle" \/ char = "brown"
        THEN "black"
    ELSE IF char = "yellow" THEN "yellow"
    ELSE IF char = "green" THEN "green"
    ELSE "null"

RECURSIVE extractBoxes_KeepAll(_)
extractBoxes_KeepAll(text) ==
    IF text = <<>> THEN <<>>
    ELSE <<normalizeBoxChar(Head(text))>> \o extractBoxes_KeepAll(Tail(text))
RECURSIVE extractBoxes(_)
extractBoxes(text) ==
    IF text = <<>> THEN <<>>
    ELSE LET normalized == normalizeBoxChar(Head(text))
         IN  IF normalized # "null"
                THEN <<normalized>> \o extractBoxes(Tail(text))
                ELSE extractBoxes(Tail(text))

\* validateBoxCount: the message thrown, or <<>> when it returns normally
validateBoxCount_NoEmptyCase(boxCount) ==
    IF ~Includes(VALID_TOTALS, boxCount)
        THEN <<"Invalid Wordle format: Found ">> \o NumberToString(boxCount)
             \o <<" boxes total, but must be one of: ">>
             \o Join(VALID_TOTALS, ", ") \o <<" (1-6 guesses)">>
    ELSE <<>>
validateBoxCount(boxCount) ==
    IF boxCount = 0
        THEN <<"Invalid Wordle format: ", "No box patterns found">>
    ELSE IF ~Includes(VALID_TOTALS, boxCount)
        THEN <<"Invalid Wordle format: Found ">> \o NumberToString(boxCount)
             \o <<" boxes total, but must be one of: ">>
             \o Join(VALID_TOTALS, ", ") \o <<" (1-6 guesses)">>
    ELSE <<>>

RECURSIVE groupFrom_Inclusive(_, _)
groupFrom_Inclusive(boxes, i) ==
    IF i <= Len(boxes)
        THEN <<Slice(boxes, i, i + BOXES_PER_GUESS)>>
             \o groupFrom_Inclusive(boxes, i + BOXES_PER_GUESS)
        ELSE <<>>
RECURSIVE groupFrom(_, _)
groupFrom(boxes, i) ==
    IF i < Len(boxes)
        THEN <<Slice(boxes, i, i + BOXES_PER_GUESS)>>
             \o groupFrom(boxes, i + BOXES_PER_GUESS)
        ELSE <<>>

groupBoxesIntoRows(boxes) == groupFrom(boxes, 0)

RECURSIVE calculateBoxScore(_)
calculateBoxScore(guess) ==
    IF guess = <<>> THEN 0
    ELSE (IF Head(guess) \in DOMAIN BOX_SCORES THEN BOX_SCORES[Head(guess)] ELSE 0)
         + calculateBoxScore(Tail(guess))

calculateGuessPenalty_FromOne(guessNumber) == guessNumber * 2
calculateGuessPenalty_FromThird(guessNumber) ==
    IF guessNumber > 2 THEN (guessNumber - 2) * 2 ELSE 0
calculateGuessPenalty(guessNumber) ==
    IF guessNumber > 1 THEN (guessNumber - 1) * 2 ELSE 0

isWordleCompleted(lastGuess) == lastGuess = COMPLETION_PATTERN

transformScore_Swapped(rawScore) == rawScore - PERFECT_SCORE_BASE
transformScore_Around50(rawScore) == MathAbs(50 - rawScore)
transformScore(rawScore) == MathAbs(PERFECT_SCORE_BASE - rawScore)

----------------------------------------------------------------------------
(* The texts scoreWordle is invoked with. *)

HeaderText == <<"W", "o", "r", "d", "l", "e", " ", "1", "\n", "\n">>

\* Rows as they are shared: an all-green row, an all-black row, and a row
\* with every alias of the black square, a yellow and a green square.
RowPatterns ==
    << <<"green", "green", "green", "green", "green">>,
       <<"black", "black", "black", "black", "black">>,
       <<"circle", "brown", "white", "yellow", "green">> >>

\* A row cut short: the first k boxes of it
PartialRow == <<"black", "yellow", "green", "white">>

RECURSIVE RowsText(_)
RowsText(rows) ==
    IF rows = <<>> THEN <<>>
    ELSE RowPatterns[Head(rows)] \o <<"\n">> \o RowsText(Tail(rows))

RowChoices == UNION {[1..k -> 1..Len(RowPatterns)] : k \in 0..MaxRows}

\* A last row one box away from the completion pattern
NearHitRow == <<"green", "green", "green", "green", "yellow">>

\* What follows the whole rows of a text: a row cut short, or the near-hit row
Tails ==
    {SubSeq(PartialRow, 1, k) : k \in 0..(BOXES_PER_GUESS - 1)} \cup {NearHitRow}

Inputs ==
    {(IF h THEN HeaderText ELSE <<>>) \o RowsText(rows) \o tail :
        h \in BOOLEAN, rows \in RowChoices, tail \in Tails}

\* The first texts of a caller that scores two texts
PairRowChoices == UNION {[1..k -> 1..Len(RowPatterns)] : k \in 0..MaxPairRows}

PairInputs ==
    {(IF h THEN HeaderText ELSE <<>>) \o RowsText(rows) \o SubSeq(PartialRow, 1, k) :
        h \in BOOLEAN, rows \in PairRowChoices, k \in 0..(BOXES_PER_GUESS - 1)}

\* The glyphs normalizeBoxChar takes for a black square, and characters it
\* takes for no box at all
AliasGlyphs == {"black", "white", "circle", "brown"}
NoiseChars == {"x", "\n"}

----------------------------------------------------------------------------
(* State machine: one invocation of scoreWordle, statement by statement. *)

NoResult ==
    [attempts |-> 0, guesses |-> <<>>, boxScores |-> <<>>, boxTotal |-> 0,
     guessPenalties |-> <<>>, totalPenalty |-> 0, failurePenalty |-> 0,
     totalScore |-> 0, originalText |-> <<>>]

\* Values of the language: a string is a sequence of code points
Undefined == [type |-> "undefined", str |-> <<>>, num |-> 0]
Null == [type |-> "null", str |-> <<>>, num |-> 0]
String(s) == [type |-> "string", str |-> s, num |-> 0]
Number(n) == [type |-> "number", str |-> <<>>, num |-> n]
Object == [type |-> "object", str |-> <<>>, num |-> 0]

\* The caller has kept no outcome yet
NoPrevious == [outcome |-> "none", text |-> <<>>, result |-> NoResult, error |-> <<>>]

\* An invocation or request that has not started
IdleFrame ==
    [pc |-> "idle", shareText |-> <<>>, allBoxes |-> <<>>, boxLines |-> <<>>,
     boxScores |-> <<>>, guessPenalties |-> <<>>, boxTotal |-> 0,
     totalPenalty |-> 0, guessIndex |-> 0, result |-> NoResult, error |-> <<>>,
     hpc |-> "idle", body |-> Undefined, rendered |-> <<>>, calls |-> 0]

Init ==
    /\ pc = "idle"
    /\ shareText = <<>>
    /\ allBoxes = <<>>
    /\ boxLines = <<>>
    /\ boxScores = <<>>
    /\ guessPenalties = <<>>
    /\ boxTotal = 0
    /\ totalPenalty = 0
    /\ guessIndex = 0
    /\ result = NoResult
    /\ error = <<>>
    /\ previous = NoPrevious
    /\ hpc = "idle"
    /\ body = Undefined
    /\ rendered = <<>>
    /\ calls = 0
    /\ other = IdleFrame

\* A caller invokes scoreWordle(text)
Invoke ==
    /\ pc = "idle"
    /\ \E text \in Inputs : shareText' = text
    /\ pc' = "extract"
    /\ UNCHANGED <<allBoxes, boxLines, boxScores, guessPenalties, boxTotal,
                   totalPenalty, guessIndex, result, error>>
    /\ UNCHANGED callerVars

\* const allBoxes = extractBoxes(shareText)
Extract_GroupFirst ==
    /\ pc = "extract"
    /\ allBoxes' = extractBoxes(shareText)
    /\ boxLines' = groupBoxesIntoRows(extractBoxes(shareText))
    /\ pc' = "validate"
    /\ UNCHANGED <<shareText, boxScores, guessPenalties, boxTotal,
                   totalPenalty, guessIndex, result, error>>
    /\ UNCHANGED callerVars
Extract ==
    /\ pc = "extract"
    /\ allBoxes' = extractBoxes(shareText)
    /\ pc' = "validate"
    /\ UNCHANGED <<shareText, boxLines, boxScores, guessPenalties, boxTotal,
                   totalPenalty, guessIndex, result, error>>
    /\ UNCHANGED callerVars

\* validateBoxCount(allBoxes.length), throwing
ValidateThrow ==
    /\ pc = "validate"
    /\ validateBoxCount(Len(allBoxes)) # <<>>
    /\ error' = validateBoxCount(Len(allBoxes))
    /\ pc' = "thrown"
    /\ UNCHANGED <<shareText, allBoxes, boxLines, boxScores, guessPenalties,
                   boxTotal, totalPenalty, guessIndex, result>>
    /\ UNCHANGED callerVars

\* validateBoxCount(allBoxes.length), returning
ValidateOk ==
    /\ pc = "validate"
    /\ validateBoxCount(Len(allBoxes)) = <<>>
    /\ pc' = "group"
    /\ UNCHANGED <<shareText, allBoxes, boxLines, boxScores, guessPenalties,
                   boxTotal, totalPenalty, guessIndex, result, error>>
    /\ UNCHANGED callerVars

\* const boxLines = groupBoxesIntoRows(allBoxes), and the loop's initialisation
Group_Hoisted ==
    /\ pc = "group"
    /\ boxLines' = groupBoxesIntoRows(allBoxes)
    /\ guessIndex' = 0
    /\ pc' = "score"
    /\ UNCHANGED <<shareText, allBoxes, boxScores, guessPenalties, boxTotal,
                   totalPenalty, result, error>>
    /\ UNCHANGED callerVars
Group ==
    /\ pc = "group"
    /\ boxLines' = groupBoxesIntoRows(allBoxes)
    /\ boxScores' = <<>>
    /\ guessPenalties' = <<>>
    /\ boxTotal' = 0
    /\ totalPenalty' = 0
    /\ guessIndex' = 0
    /\ pc' = "score"
    /\ UNCHANGED <<shareText, allBoxes, result, error>>
    /\ UNCHANGED callerVars

\* boxTotal += lineScore
boxTotalPlus_Assign(total, lineScore) == lineScore
boxTotalPlus(total, lineScore) == total + lineScore

\* One iteration of the scoring loop
ScoreGuess ==
    /\ pc = "score"
    /\ guessIndex < Len(boxLines)
    /\ LET guess == boxLines[guessIndex + 1]
           guessNumber == guessIndex + 1
           lineScore == calculateBoxScore(guess)
           penalty == calculateGuessPenalty(guessNumber)
       IN  /\ boxScores' = Append(boxScores, lineScore)
           /\ guessPenalties' = Append(guessPenalties, penalty)
           /\ boxTotal' = boxTotalPlus(boxTotal, lineScore)
           /\ totalPenalty' = totalPenalty + penalty
    /\ guessIndex' = guessIndex + 1
    /\ UNCHANGED <<pc, shareText, allBoxes, boxLines, result, error>>
    /\ UNCHANGED callerVars

\* The completion check, the final transform and the return
finalPenaltyOf_NoFailure(penalty, failurePenalty) == penalty
finalPenaltyOf(penalty, failurePenalty) == penalty + failurePenalty

rawScoreOf_NoPenalty(total, finalPenalty) == total
rawScoreOf(total, finalPenalty) == total + finalPenalty

lastGuessOf_First(lines) == lines[1]
lastGuessOf(lines) == lines[Len(lines)]

RECURSIVE Concat(_)
Concat(seqs) == IF seqs = <<>> THEN <<>> ELSE Head(seqs) \o Concat(Tail(seqs))

\* The object of the return statement
ScoreResult_NormalizedText(attempts, guesses, scores, total, penalties, finalPenalty, failurePenalty, totalScore, text) ==
    [attempts |-> attempts,
     guesses |-> guesses,
     boxScores |-> scores,
     boxTotal |-> total,
     guessPenalties |-> penalties,
     totalPenalty |-> finalPenalty,
     failurePenalty |-> failurePenalty,
     totalScore |-> totalScore,
     originalText |-> Concat(guesses)]
ScoreResult(attempts, guesses, scores, total, penalties, finalPenalty, failurePenalty, totalScore, text) ==
    [attempts |-> attempts,
     guesses |-> guesses,
     boxScores |-> scores,
     boxTotal |-> total,
     guessPenalties |-> penalties,
     totalPenalty |-> finalPenalty,
     failurePenalty |-> failurePenalty,
     totalScore |-> totalScore,
     originalText |-> text]

Complete ==
    /\ pc = "score"
    /\ guessIndex >= Len(boxLines)
    /\ LET attempts == Len(boxLines)
           lastGuess == lastGuessOf(boxLines)
           isCompleted == isWordleCompleted(lastGuess)
           failurePenalty == IF isCompleted THEN 0 ELSE FAILURE_PENALTY
           finalPenalty == finalPenaltyOf(totalPenalty, failurePenalty)
           rawScore == rawScoreOf(boxTotal, finalPenalty)
           totalScore == transformScore(rawScore)
       IN  result' = ScoreResult(attempts, boxLines, boxScores, boxTotal,
                                 guessPenalties, finalPenalty, failurePenalty,
                                 totalScore, shareText)
    /\ pc' = "returned"
    /\ UNCHANGED <<shareText, allBoxes, boxLines, boxScores, guessPenalties,
                   boxTotal, totalPenalty, guessIndex, error>>
    /\ UNCHANGED callerVars

----------------------------------------------------------------------------
(* A caller that scores a text, keeps the outcome, and scores a second text
   made from the first, as the tests on normalization and extra text do. *)

InvokeFirst ==
    /\ pc = "idle"
    /\ \E text \in PairInputs : shareText' = text
    /\ pc' = "extract"
    /\ UNCHANGED <<allBoxes, boxLines, boxScores, guessPenalties, boxTotal,
                   totalPenalty, guessIndex, result, error>>
    /\ UNCHANGED callerVars

\* The caller keeps the outcome and calls again.  Nothing clears what the
\* earlier invocation left behind: the locals of the next invocation are what
\* its own declarations (Extract, Group) make them.
InvokeNext(text) ==
    /\ pc \in {"returned", "thrown"}
    /\ previous.outcome = "none"
    /\ previous' = [outcome |-> pc, text |-> shareText, result |-> result,
                    error |-> error]
    /\ shareText' = text
    /\ pc' = "extract"
    /\ result' = NoResult
    /\ error' = <<>>
    /\ UNCHANGED <<allBoxes, boxLines, boxScores, guessPenalties, boxTotal,
                   totalPenalty, guessIndex>>
    /\ UNCHANGED <<hpc, body, rendered, calls, other>>

\* The second text is the first again
InvokeSame == InvokeNext(shareText)

\* The texts of a second invocation unrelated to the first: one to six equal
\* rows, and the row one box away from the completion pattern
SecondTexts ==
    {RowsText([i \in 1..n |-> p]) : n \in 1..MAX_GUESSES, p \in 1..Len(RowPatterns)}
        \cup {NearHitRow}

\* The second text is another game
InvokeOther == \E text \in SecondTexts : InvokeNext(text)

\* Array.prototype.join('\n') of an array of rows
RECURSIVE JoinLines(_)
JoinLines(lines) ==
    IF Len(lines) = 0 THEN <<>>
    ELSE IF Len(lines) = 1 THEN lines[1]
    ELSE lines[1] \o <<"\n">> \o JoinLines(Tail(lines))

\* The second text is the guesses of the first result, joined by newlines
InvokeWithGuesses ==
    /\ pc = "returned"
    /\ InvokeNext(JoinLines(result.guesses))

\* The second text: the first with one black-square glyph written as another
InvokeWithAlias ==
    \E i \in 1..Len(shareText), a \in AliasGlyphs :
        /\ shareText[i] \in AliasGlyphs
        /\ a # shareText[i]
        /\ InvokeNext([shareText EXCEPT ![i] = a])

\* The second text: the first with one more character that is no box
InvokeWithNoise ==
    \E i \in 0..Len(shareText), c \in NoiseChars :
        InvokeNext(SubSeq(shareText, 1, i) \o <<c>>
                   \o SubSeq(shareText, i + 1, Len(shareText)))

PairNext ==
    \/ InvokeFirst
    \/ InvokeWithAlias
    \/ InvokeWithNoise
    \/ InvokeSame
    \/ InvokeOther
    \/ InvokeWithGuesses
    \/ Extract
    \/ ValidateThrow
    \/ ValidateOk
    \/ Group
    \/ ScoreGuess
    \/ Complete

PairSpec == Init /\ [][PairNext]_vars

----------------------------------------------------------------------------
(* The handler of POST /score, which calls scoreWordle. *)

\* Characters String.prototype.trim removes
WhiteSpace == {" ", "\n", "\t", "\r"}

RECURSIVE TrimStart(_)
TrimStart(s) ==
    IF s # <<>> /\ Head(s) \in WhiteSpace THEN TrimStart(Tail(s)) ELSE s

RECURSIVE TrimEnd(_)
TrimEnd(s) ==
    IF s # <<>> /\ s[Len(s)] \in WhiteSpace
        THEN TrimEnd(SubSeq(s, 1, Len(s) - 1))
        ELSE s

Trim(s) == TrimEnd(TrimStart(s))

\* !value
Falsy(value) ==
    \/ value.type \in {"undefined", "null"}
    \/ value.type = "string" /\ value.str = <<>>
    \/ value.type = "number" /\ value.num = 0

\* value || ''
OrEmptyString(value) == IF Falsy(value) THEN String(<<>>) ELSE value

\* !wordleText || typeof wordleText !== 'string' || wordleText.trim() === ''
notProvided_NoTrim(wordleText) ==
    \/ Falsy(wordleText)
    \/ wordleText.type # "string"
notProvided(wordleText) ==
    \/ Falsy(wordleText)
    \/ wordleText.type # "string"
    \/ Trim(wordleText.str) = <<>>

\* The values of req.body.wordleText: absent, of a JSON body, or a string
BlankTexts == {<<" ">>, <<"\n", "\t">>, <<" ", "\r", " ">>}

Bodies ==
    {Undefined, Null, Number(0), Number(42), Object}
        \cup {String(text) : text \in Inputs \cup BlankTexts}

\* The locals of res.render('index', locals); null is <<>>, a value v is <<v>>
RenderLocals(res, err, text) == [result |-> res, error |-> err, wordleText |-> text]

\* A request arrives
PostScore ==
    /\ hpc = "idle"
    /\ pc = "idle"
    /\ \E value \in Bodies : body' = value
    /\ hpc' = "validate"
    /\ UNCHANGED <<scorerVars, previous, other, rendered, calls>>

\* The input validation fails: render and return
HandlerReject_NoReturn ==
    /\ hpc = "validate"
    /\ notProvided(body)
    /\ rendered' = Append(rendered,
                          RenderLocals(<<>>, << <<"Please provide Wordle share text">> >>,
                                       OrEmptyString(body)))
    /\ pc = "idle"
    /\ shareText' = body.str
    /\ pc' = "extract"
    /\ calls' = calls + 1
    /\ hpc' = "scoring"
    /\ UNCHANGED <<allBoxes, boxLines, boxScores, guessPenalties, boxTotal,
                   totalPenalty, guessIndex, result, error, previous, other, body>>
HandlerReject ==
    /\ hpc = "validate"
    /\ notProvided(body)
    /\ rendered' = Append(rendered,
                          RenderLocals(<<>>, << <<"Please provide Wordle share text">> >>,
                                       OrEmptyString(body)))
    /\ hpc' = "done"
    /\ UNCHANGED <<scorerVars, previous, other, body, calls>>

\* const result = scoreWordle(wordleText): the call
HandlerCallScore ==
    /\ hpc = "validate"
    /\ ~notProvided(body)
    /\ pc = "idle"
    /\ shareText' = body.str
    /\ pc' = "extract"
    /\ calls' = calls + 1
    /\ hpc' = "scoring"
    /\ UNCHANGED <<allBoxes, boxLines, boxScores, guessPenalties, boxTotal,
                   totalPenalty, guessIndex, result, error, previous, other, body, rendered>>

\* scoreWordle returned: res.render('index', { result, error: null, wordleText: '' })
HandlerRenderResult ==
    /\ hpc = "scoring"
    /\ pc = "returned"
    /\ rendered' = Append(rendered, RenderLocals(<<result>>, <<>>, String(<<>>)))
    /\ hpc' = "done"
    /\ UNCHANGED <<scorerVars, previous, other, body, calls>>

\* scoreWordle threw: the catch block renders the message
errorMessageOf_Generic(err) == <<"Invalid Wordle format">>
errorMessageOf(err) == err

HandlerCatch ==
    /\ hpc = "scoring"
    /\ pc = "thrown"
    /\ LET errorMessage == errorMessageOf(error)
       IN  rendered' = Append(rendered,
                              RenderLocals(<<>>, <<errorMessage>>, OrEmptyString(body)))
    /\ hpc' = "done"
    /\ UNCHANGED <<scorerVars, previous, other, body, calls>>

RouteNext ==
    \/ PostScore
    \/ HandlerReject
    \/ HandlerCallScore
    \/ Extract
    \/ ValidateThrow
    \/ ValidateOk
    \/ Group
    \/ ScoreGuess
    \/ Complete
    \/ HandlerRenderResult
    \/ HandlerCatch

RouteSpec == Init /\ [][RouteNext]_vars

----------------------------------------------------------------------------
(* Two invocations or requests in flight.  The variables of the scorer and of
   the handler are those of the one that is running; the other one keeps its
   own, since every one of them is declared inside scoreWordle or inside the
   handler. *)

ConcRowChoices == UNION {[1..k -> 1..Len(RowPatterns)] : k \in 0..MaxConcRows}

ConcTexts == {RowsText(rows) : rows \in ConcRowChoices} \cup {SubSeq(PartialRow, 1, 3)}

ConcBodies == {Undefined} \cup {String(text) : text \in ConcTexts}

\* A caller invokes scoreWordle(text)
ConcInvoke ==
    /\ pc = "idle"
    /\ hpc = "idle"
    /\ \E text \in ConcTexts : shareText' = text
    /\ pc' = "extract"
    /\ UNCHANGED <<allBoxes, boxLines, boxScores, guessPenalties, boxTotal,
                   totalPenalty, guessIndex, result, error>>
    /\ UNCHANGED callerVars

\* A request arrives
ConcPostScore ==
    /\ hpc = "idle"
    /\ pc = "idle"
    /\ \E value \in ConcBodies : body' = value
    /\ hpc' = "validate"
    /\ UNCHANGED <<scorerVars, previous, other, rendered, calls>>

\* What the running invocation or request holds
RunningFrame ==
    [pc |-> pc, shareText |-> shareText, allBoxes |-> allBoxes, boxLines |-> boxLines,
     boxScores |-> boxScores, guessPenalties |-> guessPenalties, boxTotal |-> boxTotal,
     totalPenalty |-> totalPenalty, guessIndex |-> guessIndex, result |-> result,
     error |-> error, hpc |-> hpc, body |-> body, rendered |-> rendered,
     calls |-> calls]

\* The other one runs from here on
Switch_SharedTotals ==
    /\ other' = RunningFrame
    /\ pc' = other.pc
    /\ shareText' = other.shareText
    /\ allBoxes' = other.allBoxes
    /\ boxLines' = other.boxLines
    /\ guessIndex' = other.guessIndex
    /\ result' = other.result
    /\ error' = other.error
    /\ hpc' = other.hpc
    /\ body' = other.body
    /\ rendered' = other.rendered
    /\ calls' = other.calls
    /\ UNCHANGED <<boxScores, guessPenalties, boxTotal, totalPenalty, previous>>
Switch ==
    /\ other' = RunningFrame
    /\ pc' = other.pc
    /\ shareText' = other.shareText
    /\ allBoxes' = other.allBoxes
    /\ boxLines' = other.boxLines
    /\ boxScores' = other.boxScores
    /\ guessPenalties' = other.guessPenalties
    /\ boxTotal' = other.boxTotal
    /\ totalPenalty' = other.totalPenalty
    /\ guessIndex' = other.guessIndex
    /\ result' = other.result
    /\ error' = other.error
    /\ hpc' = other.hpc
    /\ body' = other.body
    /\ rendered' = other.rendered
    /\ calls' = other.calls
    /\ UNCHANGED previous

ConcNext ==
    \/ ConcInvoke
    \/ ConcPostScore
    \/ Switch
    \/ HandlerReject
    \/ HandlerCallScore
    \/ Extract
    \/ ValidateThrow
    \/ ValidateOk
    \/ Group
    \/ ScoreGuess
    \/ Complete
    \/ HandlerRenderResult
    \/ HandlerCatch

ConcSpec == Init /\ [][ConcNext]_vars

----------------------------------------------------------------------------
Next ==
    \/ Invoke
    \/ Extract
    \/ ValidateThrow
    \/ ValidateOk
    \/ Group
    \/ ScoreGuess
    \/ Complete

Spec == Init /\ [][Next]_vars

----------------------------------------------------------------------------
(* Vocabulary of the properties, read off the input text alone. *)

RecognizedGlyphs == {"black", "white", "circle", "brown", "yellow", "green"}
MissGlyphs == {"black", "white", "circle", "brown"}

\* n: the number of recognized box glyphs of a text
GlyphCount(text) == Cardinality({i \in 1..Len(text) : text[i] \in RecognizedGlyphs})

\* The recognized glyphs of a text, in order, as they were written
IsGlyph(c) == c \in RecognizedGlyphs
Glyphs(text) == SelectSeq(text, IsGlyph)

AcceptedCounts == {5, 10, 15, 20, 25, 30}

\* Numbers of Miss and Present boxes among glyphs 5(i-1)+1 .. 5i of a text
MissesInRow(text, i) ==
    Cardinality({k \in (5 * (i - 1) + 1)..(5 * i) : Glyphs(text)[k] \in MissGlyphs})
PresentsInRow(text, i) ==
    Cardinality({k \in (5 * (i - 1) + 1)..(5 * i) : Glyphs(text)[k] = "yellow"})
HitsInRow(text, i) ==
    Cardinality({k \in (5 * (i - 1) + 1)..(5 * i) : Glyphs(text)[k] = "green"})

RowCount(text) == GlyphCount(text) \div 5
LastRowAllHit(text) == HitsInRow(text, RowCount(text)) = 5
AllMiss(text) == \A k \in 1..Len(Glyphs(text)) : Glyphs(text)[k] \in MissGlyphs

RECURSIVE SumSeq(_)
SumSeq(s) == IF s = <<>> THEN 0 ELSE Head(s) + SumSeq(Tail(s))

Distance(a, b) == IF a >= b THEN a - b ELSE b - a

\* Reading a property of an object: <<value>>, or <<>> when the object has no
\* such property (undefined)
Property(obj, name) == IF name \in DOMAIN obj THEN <<obj[name]>> ELSE <<>>

\* The first line of a text, and whether the text starts with "Wordle"
RECURSIVE FirstLine(_)
FirstLine(text) ==
    IF text = <<>> \/ Head(text) = "\n" THEN <<>>
    ELSE <<Head(text)>> \o FirstLine(Tail(text))
StartsWithWordle(text) ==
    Len(text) >= 6 /\ SubSeq(text, 1, 6) = <<"W", "o", "r", "d", "l", "e">>

----------------------------------------------------------------------------
(* Properties. *)

\* C1: scoreWordle returns a score breakdown exactly when the number n of
\* recognized glyphs of the text is one of 5, 10, 15, 20, 25, 30; for every
\* other n it throws and returns nothing.  Only n decides: an all-Miss game
\* with a valid n is scored.
C1_CountValidation ==
    /\ pc \in {"group", "score", "returned"} => GlyphCount(shareText) \in AcceptedCounts
    /\ pc = "thrown" =>
          /\ GlyphCount(shareText) \notin AcceptedCounts
          /\ result = NoResult
          /\ error # <<>>
    /\ pc = "returned" => result # NoResult /\ error = <<>>

C1_Witness ==
    /\ pc = "returned"
    /\ GlyphCount(shareText) = 30
    /\ AllMiss(shareText)

\* C2: for every valid input totalScore is the absolute value of
\* 100 - rawScore, where rawScore = boxTotal + totalPenalty and the returned
\* totalPenalty already holds the failure penalty; no clamp is applied.
C2_TotalScoreFormula ==
    pc = "returned" =>
        /\ result.totalScore = Distance(100, result.boxTotal + result.totalPenalty)
        /\ result.totalScore =
              Distance(100, result.boxTotal + SumSeq(result.guessPenalties)
                            + result.failurePenalty)

C2_Witness ==
    /\ pc = "returned"
    /\ result.failurePenalty = 10
    /\ result.attempts >= 2
    /\ result.boxTotal > 0

\* C3: for every valid input (1 to 6 rows of 5 boxes), totalScore is in 0..100.
C3_TotalScoreRange ==
    pc = "returned" => result.totalScore \in 0..100

C3_Witness ==
    /\ pc = "returned"
    /\ result.attempts = 6
    /\ result.totalScore = 0

\* C4 (as claimed): some valid input scores above 100.  totalScore exceeds 100
\* only when rawScore exceeds 200, and rawScore is largest for the game the
\* claim names, six rows of Miss boxes that is not completed; so the claim
\* says that this game scores above 100.
C4_Original ==
    (pc = "returned" /\ RowCount(shareText) = 6 /\ AllMiss(shareText))
        => result.totalScore > 100

\* C4 (amended): no valid input scores above 100.  rawScore is at most 100,
\* reached by six all-Miss rows (60 + 30 + 10), where totalScore is 0.
C4_NeverAbove100 ==
    pc = "returned" =>
        /\ result.boxTotal + result.totalPenalty <= 100
        /\ result.totalScore <= 100
        /\ (RowCount(shareText) = 6 /\ AllMiss(shareText)) =>
              /\ result.boxTotal + result.totalPenalty = 100
              /\ result.totalScore = 0

C4_Witness ==
    /\ pc = "returned"
    /\ RowCount(shareText) = 6
    /\ AllMiss(shareText)
    /\ result.boxTotal = 60

C6_HeaderLine ==
    pc = "returned" =>
        /\ result.attempts = RowCount(shareText)
        /\ StartsWithWordle(shareText) =>
              Property(result, "headerLine") = <<FirstLine(shareText)>>
        /\ ~StartsWithWordle(shareText) => Property(result, "headerLine") = <<>>

\* C7: for every row i of a valid input, boxScores[i] is twice the number of
\* Miss boxes plus the number of Present boxes of that row.
C7_BoxScores ==
    pc = "returned" =>
        /\ Len(result.boxScores) = RowCount(shareText)
        /\ \A i \in 1..RowCount(shareText) :
              result.boxScores[i] =
                  2 * MissesInRow(shareText, i) + PresentsInRow(shareText, i)

C7_Witness ==
    /\ pc = "returned"
    /\ \E i \in 1..RowCount(shareText) :
          /\ MissesInRow(shareText, i) = 3
          /\ PresentsInRow(shareText, i) = 1
          /\ result.boxScores[i] = 7

\* C8: for every valid input with a attempts, guessPenalties is the first a
\* elements of 0, 2, 4, 6, 8, 10.
C8_GuessPenalties ==
    pc = "returned" =>
        /\ result.attempts = RowCount(shareText)
        /\ result.guessPenalties = SubSeq(<<0, 2, 4, 6, 8, 10>>, 1, result.attempts)

C8_Witness ==
    /\ pc = "returned"
    /\ result.attempts = 6
    /\ result.guessPenalties[6] = 10

\* C9: failurePenalty is 0 when the last row is five Hit boxes and 10
\* otherwise, whatever the earlier rows are.
C9_FailurePenalty ==
    pc = "returned" =>
        result.failurePenalty = (IF LastRowAllHit(shareText) THEN 0 ELSE 10)

C9_Witness ==
    /\ pc = "returned"
    /\ RowCount(shareText) >= 3
    /\ HitsInRow(shareText, 1) = 5
    /\ HitsInRow(shareText, 2) < 5
    /\ ~LastRowAllHit(shareText)
    /\ result.failurePenalty = 10

\* C10: totalPenalty is the sum of the guess penalties plus failurePenalty,
\* that is attempts * (attempts - 1) + failurePenalty; a game of two or more
\* rows that is not completed has totalPenalty above 10.
C10_TotalPenalty ==
    pc = "returned" =>
        /\ result.totalPenalty = SumSeq(result.guessPenalties) + result.failurePenalty
        /\ result.totalPenalty =
              result.attempts * (result.attempts - 1) + result.failurePenalty
        /\ (result.attempts >= 2 /\ ~LastRowAllHit(shareText)) =>
              result.totalPenalty > 10

C10_Witness ==
    /\ pc = "returned"
    /\ result.attempts = 2
    /\ ~LastRowAllHit(shareText)
    /\ result.totalPenalty = 12

\* C11: for every valid input, boxTotal is the sum of the entries of boxScores.
C11_BoxTotal ==
    pc = "returned" => result.boxTotal = SumSeq(result.boxScores)

C11_Witness ==
    /\ pc = "returned"
    /\ result.attempts >= 3
    /\ result.boxScores[1] = 10
    /\ result.boxScores[2] = 7
    /\ result.boxTotal >= 17

----------------------------------------------------------------------------
(* The error message, as a test asserting on substrings reads it. *)

HasPiece(msg, piece) == \E i \in 1..Len(msg) : msg[i] = piece
HasRun(msg, run) ==
    \E i \in 0..(Len(msg) - Len(run)) : SubSeq(msg, i + 1, i + Len(run)) = run

\* '5, 10, 15, 20, 25, 30'
AcceptedList ==
    <<"5", ", ", "1", "0", ", ", "1", "5", ", ", "2", "0", ", ", "2", "5",
      ", ", "3", "0">>

\* The decimal numeral of a number below 100
Numeral(n) ==
    LET d == [k \in 0..9 |->
                 CASE k = 0 -> "0" [] k = 1 -> "1" [] k = 2 -> "2" [] k = 3 -> "3"
                   [] k = 4 -> "4" [] k = 5 -> "5" [] k = 6 -> "6" [] k = 7 -> "7"
                   [] k = 8 -> "8" [] k = 9 -> "9"]
    IN  IF n < 10 THEN <<d[n]>> ELSE <<d[n \div 10], d[n % 10]>>

\* C14: the failure message is decided by the glyph count n.  For n = 0 it
\* contains 'No box patterns found' and not the list of accepted counts; for an
\* invalid nonzero n it contains the found count n and the list
\* '5, 10, 15, 20, 25, 30', and not 'No box patterns found'.
C14_ErrorMessage ==
    pc = "thrown" =>
        LET n == GlyphCount(shareText)
        IN  /\ n = 0 =>
                  /\ HasPiece(error, "No box patterns found")
                  /\ ~HasRun(error, AcceptedList)
            /\ n # 0 =>
                  /\ HasRun(error, <<"Invalid Wordle format: Found ">> \o Numeral(n)
                                   \o <<" boxes total, but must be one of: ">>)
                  /\ HasRun(error, AcceptedList)
                  /\ ~HasPiece(error, "No box patterns found")

C14_Witness ==
    /\ pc = "thrown"
    /\ GlyphCount(shareText) = 35
    /\ HasRun(error, <<"3", "5">>)
    /\ HasRun(error, AcceptedList)

\* C15: for every valid input with n recognized glyphs, attempts = n / 5 lies in
\* 1..6, and guesses, boxScores and guessPenalties have length attempts.
C15_Lengths ==
    pc = "returned" =>
        /\ 5 * result.attempts = GlyphCount(shareText)
        /\ result.attempts \in 1..6
        /\ Len(result.guesses) = result.attempts
        /\ Len(result.boxScores) = result.attempts
        /\ Len(result.guessPenalties) = result.attempts

C15_Witness ==
    /\ pc = "returned"
    /\ GlyphCount(shareText) = 20
    /\ result.attempts = 4
    /\ Len(result.guesses) = 4

\* C16: a text whose recognized glyphs are exactly five Hit boxes yields
\* attempts 1, boxTotal 0, totalPenalty 0, failurePenalty 0, totalScore 100.
C16_PerfectGame ==
    (pc = "returned"
        /\ Glyphs(shareText) = <<"green", "green", "green", "green", "green">>) =>
        /\ result.attempts = 1
        /\ result.boxTotal = 0
        /\ result.totalPenalty = 0
        /\ result.failurePenalty = 0
        /\ result.totalScore = 100

C16_Witness ==
    /\ pc = "returned"
    /\ Glyphs(shareText) = <<"green", "green", "green", "green", "green">>
    /\ StartsWithWordle(shareText)

\* C17: a text of two all-Miss rows yields failurePenalty 10, totalPenalty 12,
\* boxTotal 20 and totalScore 68.
C17_FailedTwoGuessGame ==
    (pc = "returned" /\ GlyphCount(shareText) = 10 /\ AllMiss(shareText)) =>
        /\ result.failurePenalty = 10
        /\ result.totalPenalty = 12
        /\ result.boxTotal = 20
        /\ result.totalScore = 68

C17_Witness ==
    /\ pc = "returned"
    /\ GlyphCount(shareText) = 10
    /\ AllMiss(shareText)
    /\ result.attempts = 2

\* C18: the returned originalText is the input text unchanged, unrecognized
\* characters and alias glyphs included; normalization shows in guesses only.
C18_OriginalText ==
    pc = "returned" => result.originalText = shareText

C18_Witness ==
    /\ pc = "returned"
    /\ StartsWithWordle(result.originalText)
    /\ HasPiece(result.originalText, "brown")
    /\ \A i \in 1..Len(result.guesses) : ~HasPiece(result.guesses[i], "brown")

\* C19: the count validation completes before any row grouping, per-row
\* scoring, penalty accrual or completion check starts; on an invalid count the
\* invocation fails at once and nothing of a result exists.
NothingScored ==
    /\ boxLines = <<>>
    /\ boxScores = <<>>
    /\ guessPenalties = <<>>
    /\ boxTotal = 0
    /\ totalPenalty = 0
    /\ guessIndex = 0
    /\ result = NoResult

C19_ValidationFirst ==
    /\ [](pc \in {"idle", "extract", "validate", "thrown"} => NothingScored)
    /\ [](~NothingScored => GlyphCount(shareText) \in AcceptedCounts)
    /\ [][(pc = "validate" /\ GlyphCount(shareText) \notin AcceptedCounts)
             => pc' = "thrown"]_vars
    /\ [][(pc' = "group" /\ pc # "group") => pc = "validate"]_vars

C19_Witness ==
    /\ pc = "thrown"
    /\ GlyphCount(shareText) = 35
    /\ NothingScored

----------------------------------------------------------------------------
(* Two texts scored one after the other (PairSpec). *)

\* The second text is the first with Miss glyphs written as other Miss glyphs
AliasVariant(t1, t2) ==
    /\ Len(t1) = Len(t2)
    /\ \A i \in 1..Len(t1) :
          t1[i] = t2[i] \/ (t1[i] \in MissGlyphs /\ t2[i] \in MissGlyphs)

Canonical(glyph) == IF glyph \in MissGlyphs THEN "black" ELSE glyph

SecondOutcome == pc \in {"returned", "thrown"} /\ previous.outcome # "none"

\* C12: replacing a Miss glyph of a text by another Miss alias leaves guesses,
\* boxScores and totalScore unchanged; every alias shows in guesses as the
\* black square and scores 2 points.
C12_AliasSubstitution ==
    /\ pc = "returned" =>
          \A i \in 1..RowCount(shareText) :
              /\ \A k \in 1..5 :
                    result.guesses[i][k] = Canonical(Glyphs(shareText)[5 * (i - 1) + k])
              /\ result.boxScores[i] =
                    2 * MissesInRow(shareText, i) + PresentsInRow(shareText, i)
    /\ (SecondOutcome /\ AliasVariant(previous.text, shareText)) =>
          /\ pc = previous.outcome
          /\ result.guesses = previous.result.guesses
          /\ result.boxScores = previous.result.boxScores
          /\ result.totalScore = previous.result.totalScore

C12_Witness ==
    /\ pc = "returned"
    /\ previous.outcome = "returned"
    /\ AliasVariant(previous.text, shareText)
    /\ previous.text # shareText
    /\ HasPiece(shareText, "white")
    /\ ~HasPiece(previous.text, "white")
    /\ result.guesses = previous.result.guesses

\* The fields of a result other than originalText
ExceptOriginalText(r) == [f \in (DOMAIN r) \ {"originalText"} |-> r[f]]

\* C13: characters that are no recognized glyph are neither counted nor an
\* error: two texts with the same sequence of recognized glyphs have the same
\* outcome, a result equal in every field but originalText or the same failure.
C13_UnrecognizedIgnored ==
    /\ pc = "thrown" => GlyphCount(shareText) \notin AcceptedCounts
    /\ (SecondOutcome /\ Glyphs(previous.text) = Glyphs(shareText)) =>
          /\ pc = previous.outcome
          /\ error = previous.error
          /\ ExceptOriginalText(result) = ExceptOriginalText(previous.result)

C13_Witness ==
    /\ pc = "returned"
    /\ previous.outcome = "returned"
    /\ Glyphs(previous.text) = Glyphs(shareText)
    /\ Len(shareText) = Len(previous.text) + 1
    /\ result.originalText # previous.result.originalText
    /\ result.attempts = 2

----------------------------------------------------------------------------
(* POST /score (RouteSpec). *)

BlankChars == {" ", "\n", "\t", "\r"}

\* wordleText is missing, not a string, empty or made of white space only
MissingOrBlank(value) ==
    \/ value.type # "string"
    \/ \A i \in 1..Len(value.str) : value.str[i] \in BlankChars

\* C20: POST /score with wordleText missing, not a string, empty or
\* whitespace-only renders the page with result null and the error 'Please
\* provide Wordle share text', and scoreWordle is never called for the request.
C20_BlankInputRejected ==
    (hpc # "idle" /\ MissingOrBlank(body)) =>
        /\ calls = 0
        /\ pc = "idle"
        /\ hpc \in {"validate", "done"}
        /\ hpc = "done" =>
              /\ Len(rendered) = 1
              /\ rendered[1].result = <<>>
              /\ rendered[1].error = << <<"Please provide Wordle share text">> >>

C20_Witness ==
    /\ hpc = "done"
    /\ body.type = "string"
    /\ Len(body.str) = 2
    /\ MissingOrBlank(body)
    /\ Len(rendered) = 1
    /\ calls = 0

\* C21: when scoreWordle throws during POST /score, the handler renders result
\* null, the thrown message verbatim as error, and the submitted text
\* unmodified as wordleText; the failure does not leave the handler.
C21_ScoringErrorRendered ==
    /\ (hpc = "scoring" /\ pc = "thrown") => rendered = <<>>
    /\ (hpc = "done" /\ pc = "thrown") =>
          /\ Len(rendered) = 1
          /\ rendered[1].result = <<>>
          /\ rendered[1].error = <<error>>
          /\ rendered[1].wordleText.type = "string"
          /\ rendered[1].wordleText.str = shareText
          /\ rendered[1].wordleText = body
    /\ pc = "thrown" => hpc \in {"scoring", "done"}

C21_Witness ==
    /\ hpc = "done"
    /\ pc = "thrown"
    /\ GlyphCount(body.str) = 3
    /\ StartsWithWordle(rendered[1].wordleText.str)
    /\ HasRun(rendered[1].error[1], <<"Invalid Wordle format: Found ", "3">>)

\* An upper bound of the steps a request has left: every step lowers it
StepsLeft ==
    100 * (CASE hpc = "idle" -> 3 [] hpc = "validate" -> 2
             [] hpc = "scoring" -> 1 [] hpc = "done" -> 0)
    + 10 * (CASE pc = "idle" -> 5 [] pc = "extract" -> 4 [] pc = "validate" -> 3
              [] pc = "group" -> 2 [] pc = "score" -> 1
              [] pc \in {"returned", "thrown"} -> 0)
    + (IF pc = "score" THEN Len(boxLines) - guessIndex ELSE 0)

\* C29: every POST /score request ends with exactly one render of the page, in
\* which exactly one of result and error is not null; on success the rendered
\* result is the value scoreWordle returned, and scoreWordle is called at most
\* once per request.  (A request ends: it can always take a step until the
\* render is made, and every step lowers StepsLeft.)
C29_OneRender ==
    /\ [](hpc # "done" => rendered = <<>>)
    /\ [](hpc = "done" =>
            /\ Len(rendered) = 1
            /\ (rendered[1].result = <<>>) # (rendered[1].error = <<>>)
            /\ pc = "returned" => rendered[1].result = <<result>>
            /\ pc # "returned" => rendered[1].result = <<>>)
    /\ [](calls <= 1)
    /\ [](hpc = "validate" => ENABLED (HandlerReject \/ HandlerCallScore))
    /\ [](hpc = "scoring" =>
            CASE pc = "extract" -> ENABLED Extract
              [] pc = "validate" -> ENABLED (ValidateThrow \/ ValidateOk)
              [] pc = "group" -> ENABLED Group
              [] pc = "score" -> ENABLED (ScoreGuess \/ Complete)
              [] pc = "returned" -> ENABLED HandlerRenderResult
              [] pc = "thrown" -> ENABLED HandlerCatch
              [] OTHER -> FALSE)
    /\ [][StepsLeft' < StepsLeft /\ StepsLeft' >= 0]_vars

C29_Witness ==
    /\ hpc = "done"
    /\ pc = "returned"
    /\ calls = 1
    /\ Len(rendered) = 1
    /\ rendered[1].result = <<result>>
    /\ rendered[1].result[1].attempts = 6
    /\ rendered[1].error = <<>>

----------------------------------------------------------------------------
(* The rows of a result against the glyphs of its text. *)

\* The rows of a list of rows one after the other
RECURSIVE InOrder(_)
InOrder(rows) == IF rows = <<>> THEN <<>> ELSE Head(rows) \o InOrder(Tail(rows))

\* The recognized glyphs of a text in their canonical writing
CanonicalGlyphs(text) ==
    [k \in 1..Len(Glyphs(text)) |-> Canonical(Glyphs(text)[k])]

\* C24: for every valid input, guesses[i] is the canonical writing of glyphs
\* 5i .. 5i+4 (0-based) of the text in input order: each guess has exactly 5
\* glyphs among black, yellow and green, and the guesses one after the other
\* are the whole canonical glyph sequence, nothing lost, doubled or reordered.
C24_GuessesAreChunks ==
    pc = "returned" =>
        /\ \A i \in 1..Len(result.guesses) :
              /\ Len(result.guesses[i]) = 5
              /\ \A k \in 1..5 : result.guesses[i][k] \in {"black", "yellow", "green"}
              /\ result.guesses[i] =
                    [k \in 1..5 |-> CanonicalGlyphs(shareText)[5 * (i - 1) + k]]
        /\ InOrder(result.guesses) = CanonicalGlyphs(shareText)

C24_Witness ==
    /\ pc = "returned"
    /\ StartsWithWordle(shareText)
    /\ GlyphCount(shareText) = 15
    /\ Glyphs(shareText)[1] = "green"
    /\ Glyphs(shareText)[6] = "circle"
    /\ Glyphs(shareText)[11] = "black"
    /\ result.guesses[2] = <<"black", "black", "black", "yellow", "green">>
    /\ Len(InOrder(result.guesses)) = 15

----------------------------------------------------------------------------
(* The ends of the scale. *)

FiveHits == <<"green", "green", "green", "green", "green">>

\* C26: totalScore is 100 exactly when the recognized glyphs of the text are
\* one row of five Hit boxes; every other valid game, with a second row or a
\* box that is no Hit, scores strictly below 100.
C26_PerfectOnlyFirstGuess ==
    pc = "returned" =>
        /\ (result.totalScore = 100) <=> (Glyphs(shareText) = FiveHits)
        /\ (RowCount(shareText) > 1 \/ HitsInRow(shareText, 1) < 5) =>
              result.totalScore < 100

C26_Witness ==
    /\ pc = "returned"
    /\ RowCount(shareText) = 2
    /\ HitsInRow(shareText, 1) = 5
    /\ HitsInRow(shareText, 2) = 5
    /\ result.totalScore = 98

\* C27: totalScore is 0 exactly for six rows of Miss boxes, where the box
\* total is 60, the guess penalties add up to 30 and the failure penalty is
\* 10; every other valid input scores at least 1.
C27_ZeroOnlySixMissRows ==
    pc = "returned" =>
        /\ (result.totalScore = 0) <=> (RowCount(shareText) = 6 /\ AllMiss(shareText))
        /\ (RowCount(shareText) = 6 /\ AllMiss(shareText)) =>
              /\ result.boxTotal = 60
              /\ SumSeq(result.guessPenalties) = 30
              /\ result.failurePenalty = 10
        /\ ~(RowCount(shareText) = 6 /\ AllMiss(shareText)) => result.totalScore >= 1

C27_Witness ==
    /\ pc = "returned"
    /\ RowCount(shareText) = 6
    /\ AllMiss(shareText)
    /\ result.failurePenalty = 10
    /\ result.totalScore = 0
    /\ SumSeq(result.guessPenalties) = 30

\* C28: for every valid game that is not completed, the last row scores at
\* least 1 box point and the failure penalty is 10, so the raw score is at
\* least 11 and totalScore at most 89; the last row of a completed game
\* contributes 0 box points.
C28_LastRow ==
    pc = "returned" =>
        LET last == result.boxScores[RowCount(shareText)]
            raw == result.boxTotal + result.totalPenalty
        IN  /\ ~LastRowAllHit(shareText) =>
                  /\ last >= 1
                  /\ result.failurePenalty = 10
                  /\ raw >= 11
                  /\ result.totalScore <= 89
            /\ LastRowAllHit(shareText) =>
                  /\ last = 0
                  /\ result.failurePenalty = 0

C28_Witness ==
    /\ pc = "returned"
    /\ RowCount(shareText) = 1
    /\ HitsInRow(shareText, 1) = 4
    /\ PresentsInRow(shareText, 1) = 1
    /\ result.boxScores = <<1>>
    /\ result.failurePenalty = 10
    /\ result.totalScore = 89

----------------------------------------------------------------------------
(* The outcome of an invocation as a function of its text alone. *)

\* The result a valid text is scored to
ExpectedResult(text) ==
    LET n == RowCount(text)
        scores == [i \in 1..n |-> 2 * MissesInRow(text, i) + PresentsInRow(text, i)]
        penalties == [i \in 1..n |-> 2 * (i - 1)]
        failure == IF LastRowAllHit(text) THEN 0 ELSE 10
    IN  [attempts |-> n,
         guesses |-> [i \in 1..n |->
                         [k \in 1..5 |-> CanonicalGlyphs(text)[5 * (i - 1) + k]]],
         boxScores |-> scores,
         boxTotal |-> SumSeq(scores),
         guessPenalties |-> penalties,
         totalPenalty |-> SumSeq(penalties) + failure,
         failurePenalty |-> failure,
         totalScore |-> Distance(100, SumSeq(scores) + SumSeq(penalties) + failure),
         originalText |-> text]

\* The message an invalid text fails with
ExpectedError(text) ==
    IF GlyphCount(text) = 0
        THEN <<"Invalid Wordle format: ", "No box patterns found">>
        ELSE <<"Invalid Wordle format: Found ">> \o Numeral(GlyphCount(text))
             \o <<" boxes total, but must be one of: ">> \o AcceptedList
             \o <<" (1-6 guesses)">>

\* C22: scoreWordle is deterministic.  An invocation returns exactly when its
\* text has an accepted glyph count, its result or its failure message is
\* decided by the text alone whatever was scored before, and two invocations
\* with the same text have the same outcome: results equal in every field, or
\* the same message.
C22_Deterministic ==
    /\ pc = "returned" =>
          GlyphCount(shareText) \in AcceptedCounts /\ result = ExpectedResult(shareText)
    /\ pc = "thrown" =>
          GlyphCount(shareText) \notin AcceptedCounts /\ error = ExpectedError(shareText)
    /\ (SecondOutcome /\ previous.text = shareText) =>
          /\ pc = previous.outcome
          /\ result = previous.result
          /\ error = previous.error

C22_Witness ==
    /\ SecondOutcome
    /\ pc = "returned"
    /\ previous.text = shareText
    /\ StartsWithWordle(shareText)
    /\ result.attempts = 3
    /\ result.boxScores = <<7, 10, 0>>
    /\ result = previous.result

\* The raw score of a result
Raw(r) == r.boxTotal + r.totalPenalty

\* C25: higher is better over the valid inputs.  The raw score never exceeds
\* 100, so totalScore is exactly 100 minus the raw score, and of two valid
\* games the one with the lower raw score has the strictly higher totalScore.
C25_HigherIsBetter ==
    /\ pc = "returned" =>
          /\ Raw(result) \in 0..100
          /\ result.totalScore = 100 - Raw(result)
    /\ (pc = "returned" /\ previous.outcome = "returned") =>
          /\ Raw(previous.result) < Raw(result) =>
                previous.result.totalScore > result.totalScore
          /\ Raw(result) < Raw(previous.result) =>
                result.totalScore > previous.result.totalScore

C25_Witness ==
    /\ pc = "returned"
    /\ previous.outcome = "returned"
    /\ Raw(previous.result) = 19
    /\ Raw(result) = 100
    /\ previous.result.totalScore = 81
    /\ result.totalScore = 0

\* The rows of a list joined by newlines
RECURSIVE Lines(_)
Lines(rows) ==
    IF rows = <<>> THEN <<>>
    ELSE IF Len(rows) = 1 THEN Head(rows)
    ELSE Head(rows) \o <<"\n">> \o Lines(Tail(rows))

\* C30: scoring is stable under re-submission of its own output.  For every
\* valid input with result r, the rows of r.guesses joined by newlines are
\* scored successfully to the same attempts, guesses, boxScores, boxTotal,
\* guessPenalties, totalPenalty, failurePenalty and totalScore, every
\* canonical glyph being read as itself.
C30_Resubmission ==
    (SecondOutcome /\ previous.outcome = "returned"
       /\ shareText = Lines(previous.result.guesses)) =>
        /\ pc = "returned"
        /\ Glyphs(shareText) = InOrder(previous.result.guesses)
        /\ \A f \in {"attempts", "guesses", "boxScores", "boxTotal", "guessPenalties",
                     "totalPenalty", "failurePenalty", "totalScore"} :
              result[f] = previous.result[f]

C30_Witness ==
    /\ SecondOutcome
    /\ pc = "returned"
    /\ previous.outcome = "returned"
    /\ shareText = Lines(previous.result.guesses)
    /\ HasPiece(previous.text, "brown")
    /\ ~HasPiece(shareText, "brown")
    /\ result.guesses = previous.result.guesses
    /\ result.attempts = 3
    /\ result.originalText # previous.result.originalText

----------------------------------------------------------------------------
(* Two invocations or requests in flight (ConcSpec). *)

\* What the caller of an invocation or request gets is what it would get had
\* the invocation or request run alone
OutcomeAsAlone(f) ==
    /\ f.pc = "returned" =>
          /\ GlyphCount(f.shareText) \in AcceptedCounts
          /\ f.result = ExpectedResult(f.shareText)
    /\ f.pc = "thrown" =>
          /\ GlyphCount(f.shareText) \notin AcceptedCounts
          /\ f.error = ExpectedError(f.shareText)
    /\ f.hpc = "done" =>
          /\ Len(f.rendered) = 1
          /\ f.rendered[1].result =
                (IF ~MissingOrBlank(f.body) /\ GlyphCount(f.body.str) \in AcceptedCounts
                    THEN <<ExpectedResult(f.body.str)>> ELSE <<>>)
          /\ f.rendered[1].error =
                (IF MissingOrBlank(f.body) THEN << <<"Please provide Wordle share text">> >>
                 ELSE IF GlyphCount(f.body.str) \in AcceptedCounts THEN <<>>
                 ELSE <<ExpectedError(f.body.str)>>)

\* The data of the invocation or request that is running
Running ==
    [pc |-> pc, shareText |-> shareText, allBoxes |-> allBoxes, boxLines |-> boxLines,
     boxScores |-> boxScores, guessPenalties |-> guessPenalties, boxTotal |-> boxTotal,
     totalPenalty |-> totalPenalty, guessIndex |-> guessIndex, result |-> result,
     error |-> error, hpc |-> hpc, body |-> body, rendered |-> rendered,
     calls |-> calls]

\* C23: under any interleaving of two invocations of scoreWordle or two
\* requests to POST /score, each caller gets the outcome its invocation or
\* request has alone, and no step of one reads or writes data of the other: a
\* step of the running one leaves the data of the other as it was, and handing
\* over changes the data of neither.
C23_Interleaving ==
    /\ [](OutcomeAsAlone(Running) /\ OutcomeAsAlone(other))
    /\ [][\/ other' = other
          \/ (other' = Running /\ Running' = other)]_vars

C23_Witness ==
    /\ pc = "returned"
    /\ result.attempts = 2
    /\ result.boxScores = <<10, 0>>
    /\ other.pc = "score"
    /\ other.guessIndex = 1
    /\ other.boxTotal = 7
    /\ Len(other.boxLines) = 2
    /\ other.hpc = "scoring"
    /\ hpc = "idle"

====
